---- MODULE Spec2Model ----
(***************************************************************************)
(* The housing-price notebook (notebooks/housing_price_predictor_model)   *)
(* as a state machine: the file it reads, the DataFrame df, its column     *)
(* list, the names the later cells bind (X, y, the feature lists, the     *)
(* preprocessor, the model, the partitions, the evaluation), the files it *)
(* writes, and the cell of the notebook that runs next.  One action per   *)
(* code cell (the outlier cell is two statements, hence two actions).     *)
(*                                                                         *)
(* Text is a sequence of characters, each character a one-element string  *)
(* name.  Characters outside ASCII are named: "lstroke" is U+0142,         *)
(* "zdot" U+017C, "oacute" U+00F3, "eogonek" U+0119, "nacute" U+0144,     *)
(* "sacute" U+015B, "sq" U+00B2, and upper-case names ("ZDOT", "OACUTE",  *)
(* "LSTROKE") their capitals.                                              *)
(*                                                                         *)
(* A float is modelled as the exact decimal its text denotes: Num(m, e)   *)
(* is m / 10^e with trailing zero fraction digits removed.  Binary        *)
(* rounding of float64 is not modelled.                                   *)
(***************************************************************************)
EXTENDS Integers, Sequences, FiniteSets, TLC

VARIABLES pc, df, columns, error, snap,
          file, X, y, numerical_features, categorical_features,
          preprocessor, model, X_train, X_test, y_pred, mae, files, fit_log

\* the names cells 12-17 bind, the files written, and the log of fit calls
mlvars ==
    <<X, y, numerical_features, categorical_features, preprocessor, model,
      X_train, X_test, y_pred, mae, files, fit_log>>

vars == <<pc, df, columns, error, snap, file, mlvars>>

(***************************************************************************)
(* Bounds of the model.                                                    *)
(***************************************************************************)
\* rows of a dataset of the whole-run specification
MaxRows == 4
\* characters of a numeric cell before its unit suffix
MaxBody == 5
\* characters of a location string
MaxLocLen == 5
\* phrases joined into one 'Informacje dodatkowe' text
MaxPieces == 2

\* rows of a dataset whose order is varied
MaxFitRows == 3

(***************************************************************************)
(* Cells.                                                                  *)
(***************************************************************************)
NaN == [t |-> "nan"]

Str(s) == [t |-> "str", s |-> s]

RECURSIVE Canon(_, _)
Canon(m, e) == IF e > 0 /\ m % 10 = 0 THEN Canon(m \div 10, e - 1) ELSE <<m, e>>

Num(m, e) == [t |-> "num", m |-> Canon(m, e)[1], e |-> Canon(m, e)[2]]

IsNaN(c) == c.t = "nan"

IsNum(c) == c.t = "num"

IsStr(c) == c.t = "str"

RECURSIVE Pow10(_)
Pow10(k) == IF k = 0 THEN 1 ELSE 10 * Pow10(k - 1)

(***************************************************************************)
(* Characters.                                                             *)
(***************************************************************************)
DigitChars == {"0", "1", "2", "3", "4", "5", "6", "7", "8", "9"}

DigitVal(c) ==
    CASE c = "0" -> 0 [] c = "1" -> 1 [] c = "2" -> 2 [] c = "3" -> 3
      [] c = "4" -> 4 [] c = "5" -> 5 [] c = "6" -> 6 [] c = "7" -> 7
      [] c = "8" -> 8 [] c = "9" -> 9

\* str.isspace of the characters the model uses
IsSpace(c) == c = " "

\* the characters that match neither \w nor \s
PunctChars == {",", ".", "/", "-"}

\* \w of Python's re on str: letters (any script), digits, underscore
IsWord(c) == ~IsSpace(c) /\ c \notin PunctChars

\* the capitals the model's texts use, with their lower case
LowerOf ==
    ("A" :> "a") @@ ("B" :> "b") @@ ("C" :> "c") @@ ("D" :> "d")
        @@ ("E" :> "e") @@ ("F" :> "f") @@ ("G" :> "g") @@ ("H" :> "h")
        @@ ("I" :> "i") @@ ("J" :> "j") @@ ("K" :> "k") @@ ("L" :> "l")
        @@ ("M" :> "m") @@ ("N" :> "n") @@ ("O" :> "o") @@ ("P" :> "p")
        @@ ("Q" :> "q") @@ ("R" :> "r") @@ ("S" :> "s") @@ ("T" :> "t")
        @@ ("U" :> "u") @@ ("V" :> "v") @@ ("W" :> "w") @@ ("X" :> "x")
        @@ ("Y" :> "y") @@ ("Z" :> "z") @@ ("ZDOT" :> "zdot") @@ ("OACUTE" :> "oacute")
        @@ ("LSTROKE" :> "lstroke")

\* str.lower of one character
Lower(c) == IF c \in DOMAIN LowerOf THEN LowerOf[c] ELSE c

(***************************************************************************)
(* Text operations of pandas' .str accessor and of float().                *)
(***************************************************************************)
MatchAt(s, i, pat) ==
    /\ i + Len(pat) - 1 <= Len(s)
    /\ \A k \in 1..Len(pat) : s[i + k - 1] = pat[k]

\* re.sub of a pattern without metacharacters: leftmost, non-overlapping
RECURSIVE ReplaceFrom(_, _, _, _)
ReplaceFrom(s, i, pat, repl) ==
    IF i > Len(s) THEN <<>>
    ELSE IF MatchAt(s, i, pat)
         THEN repl \o ReplaceFrom(s, i + Len(pat), pat, repl)
         ELSE <<s[i]>> \o ReplaceFrom(s, i + 1, pat, repl)

\* Series.str.replace(pat, repl): NaN stays NaN
StrReplace(c, pat, repl) ==
    IF IsStr(c) THEN Str(ReplaceFrom(c.s, 1, pat, repl)) ELSE c

\* Series.replace(value, np.nan): only a cell equal to the whole value
ReplaceValue(c, value) == IF IsStr(c) /\ c.s = value THEN NaN ELSE c

\* str.strip as float() applies it before parsing
RECURSIVE LStrip(_)
LStrip(s) == IF s # <<>> /\ IsSpace(Head(s)) THEN LStrip(Tail(s)) ELSE s

RECURSIVE RStrip(_)
RStrip(s) ==
    IF s # <<>> /\ IsSpace(s[Len(s)]) THEN RStrip(SubSeq(s, 1, Len(s) - 1)) ELSE s

Strip(s) == RStrip(LStrip(s))

RECURSIVE DigitsValue(_)
DigitsValue(s) ==
    IF s = <<>> THEN 0
    ELSE 10 * DigitsValue(SubSeq(s, 1, Len(s) - 1)) + DigitVal(s[Len(s)])

DotPositions(s) == {i \in 1..Len(s) : s[i] = "."}

\* float(text) accepts: optional blanks, digits with at most one point and
\* at least one digit (signs, exponents, inf and nan use characters the
\* model's texts do not contain)
FloatOk(s) ==
    LET b == Strip(s) IN
    /\ \A i \in 1..Len(b) : b[i] \in DigitChars \/ b[i] = "."
    /\ Cardinality(DotPositions(b)) <= 1
    /\ \E i \in 1..Len(b) : b[i] \in DigitChars

FloatValue(s) ==
    LET b == Strip(s)
        dots == DotPositions(b)
        p == IF dots = {} THEN Len(b) + 1 ELSE CHOOSE i \in dots : TRUE
        ip == SubSeq(b, 1, p - 1)
        fp == SubSeq(b, p + 1, Len(b))
    IN  Num(DigitsValue(ip \o fp), Len(fp))

\* Series.astype(float) on one cell: NaN stays NaN, text goes through float()
AstypeFloatOk(c) == IsNaN(c) \/ IsNum(c) \/ (IsStr(c) /\ FloatOk(c.s))

AstypeFloat(c) == IF IsStr(c) THEN FloatValue(c.s) ELSE c

(***************************************************************************)
(* Literals of the notebook.                                               *)
(***************************************************************************)
SizeCol == <<"s", "i", "z", "e">>

CzynszCol == <<"C", "z", "y", "n", "s", "z">>

HasCzynszCol == <<"h", "a", "s", "_", "c", "z", "y", "n", "s", "z">>

LocationCol == <<"l", "o", "c", "a", "t", "i", "o", "n">>

CityCol == <<"c", "i", "t", "y">>

NeighborhoodCol == <<"n", "e", "i", "g", "h", "b", "o", "r", "h", "o", "o", "d">>

RegionCol == <<"r", "e", "g", "i", "o", "n">>

PriceCol == <<"p", "r", "i", "c", "e">>

PricePerSqmCol == <<"p", "r", "i", "c", "e", "_", "p", "e", "r", "_", "s", "q", "m">>

InfoCol ==
    <<"I", "n", "f", "o", "r", "m", "a", "c", "j", "e", " ",
      "d", "o", "d", "a", "t", "k", "o", "w", "e">>

LogPriceCol == <<"l", "o", "g", "_", "p", "r", "i", "c", "e">>

TitleCol == <<"t", "i", "t", "l", "e">>

OgrzewanieCol == <<"O", "g", "r", "z", "e", "w", "a", "n", "i", "e">>

\* 'Piętro'
PietroCol == <<"P", "i", "eogonek", "t", "r", "o">>

\* 'Stan wykończenia'
StanWykonczeniaCol ==
    <<"S", "t", "a", "n", " ", "w", "y", "k", "o", "nacute", "c", "z", "e", "n", "i", "a">>

RynekCol == <<"R", "y", "n", "e", "k">>

\* 'Forma własności'
FormaWlasnosciCol ==
    <<"F", "o", "r", "m", "a", " ", "w", "lstroke", "a", "s", "n", "o", "sacute", "c", "i">>

\* 'Typ ogłoszeniodawcy'
TypOgloszeniodawcyCol ==
    <<"T", "y", "p", " ", "o", "g", "lstroke", "o", "s", "z", "e", "n", "i", "o",
      "d", "a", "w", "c", "y">>

\* ' zł'
ZlSuffix == <<" ", "z", "lstroke">>

\* 'm²'
M2Suffix == <<"m", "sq">>

BrakInformacji ==
    <<"b", "r", "a", "k", " ", "i", "n", "f", "o", "r", "m", "a", "c", "j", "i">>

PriceNotAvailable ==
    <<"P", "r", "i", "c", "e", "n", "o", "t",
      "a", "v", "a", "i", "l", "a", "b", "l", "e">>

\* the list `amenities` of extract_amenities, in its order
amenities ==
    << <<"b", "a", "l", "k", "o", "n">>,
       <<"t", "a", "r", "a", "s">>,
       <<"g", "a", "r", "a", "zdot", "/", "m", "i", "e", "j", "s", "c", "e", " ",
         "p", "a", "r", "k", "i", "n", "g", "o", "w", "e">>,
       <<"p", "i", "w", "n", "i", "c", "a">>,
       <<"o", "d", "d", "z", "i", "e", "l", "n", "a", " ",
         "k", "u", "c", "h", "n", "i", "a">>,
       <<"o", "g", "r", "oacute", "d", "e", "k">>,
       <<"p", "o", "m", ".", " ", "u", "zdot", "y", "t", "k", "o", "w", "e">> >>

(***************************************************************************)
(* Field Normalizer: the cell-wise part of cells 3, 4 and 7.               *)
(***************************************************************************)
\* cell 3, before .astype(float)
SizeText(c) == StrReplace(StrReplace(c, M2Suffix, <<>>), <<",">>, <<".">>)

\* cell 4, before .astype(float)
CzynszText(c) ==
    StrReplace(
        StrReplace(
            StrReplace(ReplaceValue(c, BrakInformacji), ZlSuffix, <<>>),
            <<",">>, <<".">>),
        <<" ">>, <<>>)

\* cell 7, line 1
PriceText(c) ==
    StrReplace(
        StrReplace(StrReplace(c, ZlSuffix, <<>>), <<" ">>, <<>>),
        <<",">>, <<".">>)

\* cell 7, line 2, before .astype(float)
PriceSentinel(c) == ReplaceValue(c, PriceNotAvailable)

(***************************************************************************)
(* Regular expressions of cell 6.  A pattern is a sequence of elements:   *)
(* "w+" is \w+, "s*" is \s*, "," the literal comma, "$" the end anchor.   *)
(* The matcher is re.search's: leftmost start, greedy quantifiers with    *)
(* backtracking.                                                           *)
(***************************************************************************)
SetMax(S) == CHOOSE x \in S : \A z \in S : z <= x

\* the first position from i on whose character is not of class el
RECURSIVE RunEnd(_, _, _)
RunEnd(el, s, i) ==
    IF i <= Len(s) /\ (IF el = "w+" THEN IsWord(s[i]) ELSE IsSpace(s[i]))
    THEN RunEnd(el, s, i + 1) ELSE i

\* the longest and the shortest end (exclusive) of element el started at i;
\* no end at all when the longest is below the shortest
ReLongest(el, s, i) ==
    CASE el \in {"w+", "s*"} -> RunEnd(el, s, i)
      [] el = "," -> IF i <= Len(s) /\ s[i] = "," THEN i + 1 ELSE i
      [] el = "$" -> IF i = Len(s) + 1 THEN i ELSE i - 1

ReShortest(el, i) == IF el \in {"s*", "$"} THEN i ELSE i + 1

NoMatch == [ok |-> FALSE, ends |-> <<>>]

\* ReRun: pattern elements k.. matched from position i; ReTry: element k
\* ending at j, then at j - 1, ... down to lo (greedy, backtracking)
RECURSIVE ReRun(_, _, _, _), ReTry(_, _, _, _, _)
ReRun(pat, s, k, i) ==
    IF k > Len(pat) THEN [ok |-> TRUE, ends |-> <<>>]
    ELSE ReTry(pat, s, k, ReLongest(pat[k], s, i), ReShortest(pat[k], i))

ReTry(pat, s, k, j, lo) ==
    IF j < lo THEN NoMatch
    ELSE LET rest == ReRun(pat, s, k + 1, j)
         IN  IF rest.ok THEN [ok |-> TRUE, ends |-> <<j>> \o rest.ends]
             ELSE ReTry(pat, s, k, j - 1, lo)

\* re.search: the match at the leftmost start from i on
RECURSIVE ReSearch(_, _, _)
ReSearch(pat, s, i) ==
    IF i > Len(s) + 1 THEN [ok |-> FALSE, start |-> 0, ends |-> <<>>]
    ELSE LET m == ReRun(pat, s, 1, i)
         IN  IF m.ok THEN [ok |-> TRUE, start |-> i, ends |-> m.ends]
             ELSE ReSearch(pat, s, i + 1)

\* the text of pattern element g in match m
ReGroup(s, m, g) ==
    SubSeq(s, IF g = 1 THEN m.start ELSE m.ends[g - 1], m.ends[g] - 1)

\* Series.str.extract(pat)[column] of one cell; g is the pattern element
\* that the chosen capture group encloses
StrExtract(c, pat, g) ==
    IF IsStr(c)
    THEN LET m == ReSearch(pat, c.s, 1)
         IN  IF m.ok THEN Str(ReGroup(c.s, m, g)) ELSE NaN
    ELSE NaN

\* r'(\w+),\s*\w+,\s*(\w+)$'
CityPattern == <<"w+", ",", "s*", "w+", ",", "s*", "w+", "$">>

\* r'(\w+),\s*(\w+),\s*\w+$'
NeighborhoodPattern == <<"w+", ",", "s*", "w+", ",", "s*", "w+", "$">>

\* r'(\w+)$'
RegionPattern == <<"w+", "$">>

\* ...str.extract(CityPattern)[0]: the first group, element 1
ExtractCity(c) == StrExtract(c, CityPattern, 1)

\* ...str.extract(NeighborhoodPattern)[1]: the second group, element 4
ExtractNeighborhood(c) == StrExtract(c, NeighborhoodPattern, 4)

\* a slip: the region read off the last group of the three-token pattern
ExtractRegionThreeTokens(c) == StrExtract(c, CityPattern, 7)

\* ...str.extract(RegionPattern)[0]
ExtractRegion(c) == StrExtract(c, RegionPattern, 1)

(***************************************************************************)
(* Amenity Extractor, cell 9.                                              *)
(***************************************************************************)
\* re.search(amenity, text, re.IGNORECASE) at one position: str.contains
\* compiles the phrase as a regular expression, so "." matches any character
ReLitMatchAt(s, i, pat) ==
    /\ i + Len(pat) - 1 <= Len(s)
    /\ \A k \in 1..Len(pat) :
          pat[k] = "." \/ Lower(s[i + k - 1]) = Lower(pat[k])

\* Series.str.contains(amenity, case=False, na=False).astype(int)
StrContains(c, pat) ==
    IF IsStr(c) /\ \E i \in 1..(Len(c.s) + 1) : ReLitMatchAt(c.s, i, pat)
    THEN Num(1, 0) ELSE Num(0, 0)

\* amenity.replace("/", "_").replace(" ", "_").lower()
AmenitySlug(a) ==
    [k \in 1..Len(a) |-> IF a[k] \in {"/", " "} THEN "_" ELSE Lower(a[k])]

\* f'has_{...}'
AmenityColumn(a) == <<"h", "a", "s", "_">> \o AmenitySlug(a)

(***************************************************************************)
(* The DataFrame.  df is the sequence of its rows; a row keeps its index  *)
(* label idx and maps each column name to a cell.  columns is df.columns. *)
(***************************************************************************)
Cell(r, col) == r.cells[col]

\* df[col] = value on one row: an existing column is overwritten
SetCol(r, col, v) == [r EXCEPT !.cells = (col :> v) @@ r.cells]

\* df.drop(columns=[col]) on one row
DropCol(r, col) ==
    [r EXCEPT !.cells = [c \in (DOMAIN r.cells) \ {col} |-> r.cells[c]]]

Range(f) == {f[i] : i \in DOMAIN f}

\* the index labels of a frame
IdxSet(frame) == {frame[i].idx : i \in 1..Len(frame)}

\* df.loc[ix]
RowOf(frame, ix) == frame[CHOOSE i \in 1..Len(frame) : frame[i].idx = ix]

\* df.columns after df[col] = ...: a new column goes last
WithColumn(cols, col) == IF col \in Range(cols) THEN cols ELSE Append(cols, col)

\* df.columns after df.drop(columns=[col])
WithoutColumn(cols, col) == SelectSeq(cols, LAMBDA c : c # col)

\* Series.isna().astype(int)
IsNaInt(c) == IF IsNaN(c) THEN Num(1, 0) ELSE Num(0, 0)

\* exact fractions n / d with d > 0, in lowest terms
RECURSIVE GCD(_, _)
GCD(a, b) == IF b = 0 THEN a ELSE GCD(b, a % b)

Abs(n) == IF n < 0 THEN -n ELSE n

Reduce(n, d) ==
    LET g == GCD(Abs(n), d) IN [n |-> n \div g, d |-> d \div g]

\* the float n / d, n and d integers, d # 0
Quo(n, d) ==
    LET r == IF d < 0 THEN Reduce(-n, -d) ELSE Reduce(n, d)
    IN  [t |-> "quo", n |-> r.n, d |-> r.d]

\* df['price'] / df['size'] on one row: NaN propagates, x/0 is inf, 0/0 NaN
Divide(a, b) ==
    IF IsNaN(a) \/ IsNaN(b) THEN NaN
    ELSE IF b.m = 0
    THEN (IF a.m = 0 THEN NaN
          ELSE IF a.m > 0 THEN [t |-> "inf"] ELSE [t |-> "neginf"])
    ELSE Quo(a.m * Pow10(b.e), b.m * Pow10(a.e))

\* np.log on one cell: log(0) is -inf and the log of a negative number NaN
\* (warnings, not exceptions); otherwise the float nearest the logarithm,
\* kept as a term
NpLog(c) ==
    IF IsNaN(c) THEN NaN
    ELSE IF c.m = 0 THEN [t |-> "neginf"]
    ELSE IF c.m < 0 THEN NaN
    ELSE [t |-> "log", of |-> c]

(***************************************************************************)
(* np.log and np.exp in numbers.  A float result is carried to FixDigits  *)
(* fraction digits (float64 carries about 16 significant digits): LnFix   *)
(* and ExpFix work on integers in units of 1 / FixScale and round down at *)
(* every step, as a float operation rounds at every step.                 *)
(***************************************************************************)
FixDigits == 4

FixScale == Pow10(FixDigits)

\* ln 2 and ln 10 in units of 1 / FixScale
Ln2Fix == 6931

Ln10Fix == 23026

RECURSIVE ILog2(_)
ILog2(m) == IF m < 2 THEN 0 ELSE 1 + ILog2(m \div 2)

RECURSIVE Pow2(_)
Pow2(k) == IF k = 0 THEN 1 ELSE 2 * Pow2(k - 1)

\* z + z^3/3 + ... + z^9/9 from the term t = z^(n-2), z2 = z^2
RECURSIVE AtanhSeries(_, _, _)
AtanhSeries(t, z2, n) ==
    IF n > 9 THEN 0
    ELSE LET u == (t * z2) \div FixScale
         IN  (u \div n) + AtanhSeries(u, z2, n + 2)

\* ln m for an integer m >= 1: m = 2^k * f with 1 <= f < 2 and
\* ln f = 2 * atanh((f - 1) / (f + 1))
LnInt(m) ==
    LET k == ILog2(m)
        f == (m * FixScale) \div Pow2(k)
        z == ((f - FixScale) * FixScale) \div (f + FixScale)
        z2 == (z * z) \div FixScale
    IN  2 * (z + AtanhSeries(z, z2, 3)) + k * Ln2Fix

\* the logarithm of the positive number c
LnFix(c) == LnInt(c.m) - c.e * Ln10Fix

\* r + r^2/2! + ... + r^8/8! from the term t = r^(n-1)/(n-1)!
RECURSIVE ExpSeries(_, _, _)
ExpSeries(t, r, n) ==
    IF n > 8 THEN 0
    ELSE LET u == (t * r) \div (n * FixScale)
         IN  u + ExpSeries(u, r, n + 1)

\* e^v: v = k * ln 2 + r with 0 <= r < ln 2
ExpFix(v) ==
    LET k == v \div Ln2Fix
        r == v - k * Ln2Fix
        s == FixScale + ExpSeries(FixScale, r, 1)
    IN  IF k >= 0 THEN s * Pow2(k) ELSE s \div Pow2(-k)

\* np.exp on one cell: of a logarithm the number the two operations give, of
\* any other term (a prediction) a term
NpExp(c) ==
    IF IsNaN(c) THEN NaN
    ELSE IF c.t = "neginf" THEN Num(0, 0)
    ELSE IF c.t = "log" THEN Num(ExpFix(LnFix(c.of)), FixDigits)
    ELSE [t |-> "exp", of |-> c]

(***************************************************************************)
(* Outlier Filter, cell 10.  The present values of a column are brought   *)
(* to one power of ten (integers xs); 4*Q1 and 4*Q3 are then integers.    *)
(***************************************************************************)
\* the non-NaN cells of a column, which Series.quantile works on
Present(frame, column) ==
    SelectSeq([i \in 1..Len(frame) |-> Cell(frame[i], column)], IsNum)

\* the largest number of fraction digits among the present values
ColExp(frame, column) ==
    LET es == {c.e : c \in Range(Present(frame, column))}
    IN  IF es = {} THEN 0 ELSE SetMax(es)

\* a cell in units of 10^-k
Scaled(c, k) == c.m * Pow10(k - c.e)

\* the k-th smallest (k from 1) of the integers xs
Kth(xs, k) ==
    CHOOSE v \in Range(xs) :
        /\ Cardinality({i \in DOMAIN xs : xs[i] < v}) < k
        /\ k <= Cardinality({i \in DOMAIN xs : xs[i] <= v})

\* 4 * Series.quantile(q4 / 4), interpolation='linear', of non-empty xs
Quantile4(xs, q4) ==
    LET h == (Len(xs) - 1) * q4
        lo == h \div 4
        g == h % 4
    IN  IF g = 0 THEN 4 * Kth(xs, lo + 1)
        ELSE 4 * Kth(xs, lo + 1) + g * (Kth(xs, lo + 2) - Kth(xs, lo + 1))

\* a slip: the fences themselves kept (>= and <= for > and <)
InFenceClosed(c, k, q1, q3) ==
    /\ IsNum(c)
    /\ 8 * Scaled(c, k) >= 5 * q1 - 3 * q3
    /\ 8 * Scaled(c, k) <= 5 * q3 - 3 * q1

\* the mask of remove_outliers on one row, all sides multiplied by 8:
\* 8*(Q1 - 1.5*IQR) = 5*(4*Q1) - 3*(4*Q3), 8*(Q3 + 1.5*IQR) = 5*(4*Q3) - 3*(4*Q1)
InFence(c, k, q1, q3) ==
    /\ IsNum(c)
    /\ 8 * Scaled(c, k) > 5 * q1 - 3 * q3
    /\ 8 * Scaled(c, k) < 5 * q3 - 3 * q1

\* a slip: a column whose quartiles coincide is left as it is
remove_outliers_unless_flat(frame, column) ==
    LET k == ColExp(frame, column)
        pres == Present(frame, column)
        xs == [i \in 1..Len(pres) |-> Scaled(pres[i], k)]
    IN  IF Len(xs) = 0
        THEN SelectSeq(frame, LAMBDA r : FALSE)
        ELSE IF Quantile4(xs, 1) = Quantile4(xs, 3)
        THEN frame
        ELSE SelectSeq(frame,
                 LAMBDA r : InFence(Cell(r, column), k,
                                    Quantile4(xs, 1), Quantile4(xs, 3)))

remove_outliers(frame, column) ==
    LET k == ColExp(frame, column)
        pres == Present(frame, column)
        xs == [i \in 1..Len(pres) |-> Scaled(pres[i], k)]
    IN  IF Len(xs) = 0
        THEN SelectSeq(frame, LAMBDA r : FALSE)
        ELSE SelectSeq(frame,
                 LAMBDA r : InFence(Cell(r, column), k,
                                    Quantile4(xs, 1), Quantile4(xs, 3)))

(***************************************************************************)
(* Feature Pipeline, cells 13-15.  Fitted statistics are exact fractions. *)
(***************************************************************************)
\* cell 13, categorical_features
CategoricalFeatures ==
    <<OgrzewanieCol, PietroCol, StanWykonczeniaCol, RynekCol,
      FormaWlasnosciCol, TypOgloszeniodawcyCol, NeighborhoodCol>>

HasPrefix == <<"h", "a", "s", "_">>

\* str.startswith
StartsWith(s, p) == Len(s) >= Len(p) /\ SubSeq(s, 1, Len(p)) = p

\* cell 13, numerical_features: four names, then every column of df.columns
\* that starts with 'has_', in the order of df.columns
NumericalFeatures(cols) ==
    <<SizeCol, CzynszCol, HasCzynszCol, PricePerSqmCol>>
        \o SelectSeq(cols, LAMBDA c : StartsWith(c, HasPrefix))

\* a number or a quotient cell as a fraction
RatOf(c) == IF IsNum(c) THEN Reduce(c.m, Pow10(c.e)) ELSE Reduce(c.n, c.d)

RatAdd(a, b) == Reduce(a.n * b.d + b.n * a.d, a.d * b.d)

RatSub(a, b) == Reduce(a.n * b.d - b.n * a.d, a.d * b.d)

RatMul(a, b) == Reduce(a.n * b.n, a.d * b.d)

RECURSIVE RatSum(_)
RatSum(xs) ==
    IF xs = <<>> THEN [n |-> 0, d |-> 1] ELSE RatAdd(Head(xs), RatSum(Tail(xs)))

\* the mean of a non-empty sequence of fractions
RatMean(xs) == LET s == RatSum(xs) IN Reduce(s.n, s.d * Len(xs))

IsFinite(c) == IsNum(c) \/ c.t = "quo"

IsInf(c) == c.t \in {"inf", "neginf"}

ColumnValues(frame, col) == [i \in 1..Len(frame) |-> Cell(frame[i], col)]

\* SimpleImputer(strategy='mean').statistics_ of one column: the mean of the
\* present values, NaN when none is present
ImputerMean(frame, col) ==
    LET xs == SelectSeq(ColumnValues(frame, col), IsFinite)
    IN  IF xs = <<>> THEN NaN
        ELSE RatMean([i \in 1..Len(xs) |-> RatOf(xs[i])])

\* SimpleImputer.transform on one cell
Impute(c, statistic) == IF IsNaN(c) THEN statistic ELSE RatOf(c)

\* the numeric branch fitted on one column: the imputer's statistic, then the
\* scaler's mean_ and var_ of the imputed column; a column with no present
\* value is dropped by the imputer
FitNumeric(frame, col) ==
    LET statistic == ImputerMean(frame, col)
        xs == [i \in 1..Len(frame) |-> Impute(Cell(frame[i], col), statistic)]
        mean == RatMean(xs)
        sq == [i \in 1..Len(xs) |->
                  RatMul(RatSub(xs[i], mean), RatSub(xs[i], mean))]
    IN  IF statistic = NaN THEN [dropped |-> TRUE]
        ELSE [dropped |-> FALSE, statistic |-> statistic,
              mean |-> mean, var |-> RatMean(sq)]

\* the numeric branch on one cell: (x - mean_) / sqrt(var_), the divisor 1
\* when var_ is 0; kept as the pair of x - mean_ and var_
Standardize(c, st) ==
    [t |-> "z", num |-> RatSub(Impute(c, st.statistic), st.mean), var |-> st.var]

\* fill_value of the categorical imputer
MissingToken == <<"m", "i", "s", "s", "i", "n", "g">>

\* SimpleImputer(strategy='constant', fill_value='missing') on one cell
ImputeCategory(c) == IF IsNaN(c) THEN Str(MissingToken) ELSE c

\* OneHotEncoder.categories_ of one column
Categories(frame, col) ==
    {ImputeCategory(Cell(frame[i], col)) : i \in 1..Len(frame)}

\* a slip: a category not seen at fit gets an indicator of its own
OneHotGrowing(c, cats) ==
    [k \in cats \cup {ImputeCategory(c)} |-> IF ImputeCategory(c) = k THEN 1 ELSE 0]

\* OneHotEncoder(handle_unknown='ignore').transform on one cell: one
\* indicator per fitted category, all 0 for a category not among them
OneHot(c, cats) == [k \in cats |-> IF ImputeCategory(c) = k THEN 1 ELSE 0]

\* cell 13: the ColumnTransformer as constructed
UnfittedPreprocessor(num, cat) ==
    [fitted |-> FALSE, numerical |-> num, categorical |-> cat]

\* ColumnTransformer.fit on the rows of frame
FitPreprocessor(pre, frame) ==
    [fitted |-> TRUE, numerical |-> pre.numerical, categorical |-> pre.categorical,
     num |-> [j \in 1..Len(pre.numerical) |-> FitNumeric(frame, pre.numerical[j])],
     cat |-> [k \in 1..Len(pre.categorical) |->
                 Categories(frame, pre.categorical[k])]]

\* the positions of numerical_features whose column the imputer keeps
KeptNumeric(pre) ==
    SelectSeq([j \in 1..Len(pre.numerical) |-> j], LAMBDA j : ~pre.num[j].dropped)

\* ColumnTransformer.transform on one row: the numeric block, then the
\* indicator blocks
Transform(pre, r) ==
    [num |-> [i \in 1..Len(KeptNumeric(pre)) |->
                 LET j == KeptNumeric(pre)[i]
                 IN  Standardize(Cell(r, pre.numerical[j]), pre.num[j])],
     cat |-> [k \in 1..Len(pre.categorical) |->
                 OneHot(Cell(r, pre.categorical[k]), pre.cat[k])]]

RECURSIVE SumCard(_)
SumCard(sets) ==
    IF sets = <<>> THEN 0 ELSE Cardinality(Head(sets)) + SumCard(Tail(sets))

\* the number of columns transform gives
OutputWidth(pre) == Len(KeptNumeric(pre)) + SumCard(pre.cat)

\* the imputer refuses infinity (check_array, force_all_finite='allow-nan')
NumericFinite(pre, frame) ==
    \A i \in 1..Len(frame) : \A j \in 1..Len(pre.numerical) :
        ~IsInf(Cell(frame[i], pre.numerical[j]))

\* X.columns: df.columns without the three columns cell 12 drops
XColumns ==
    SelectSeq(columns, LAMBDA c : c \notin {PriceCol, LogPriceCol, TitleCol})

\* the ColumnTransformer finds every listed column in X
FeaturesPresent(pre) ==
    Range(pre.numerical) \cup Range(pre.categorical) \subseteq Range(XColumns)

(***************************************************************************)
(* train_test_split(X, y, test_size=0.2, random_state=42), cell 15.       *)
(***************************************************************************)
\* ceil(0.2 * n) in float64, for n <= 14
NTest(n) == (n + 4) \div 5

\* np.random.RandomState(42).permutation(n), positions from 0
Permutation42 ==
    << <<0>>,
       <<1, 0>>,
       <<0, 1, 2>>,
       <<1, 3, 0, 2>>,
       <<1, 4, 2, 0, 3>>,
       <<0, 1, 5, 2, 4, 3>>,
       <<0, 1, 5, 2, 4, 3, 6>> >>

\* the first n_test positions of the permutation are the test partition
SplitTest(frame) ==
    [i \in 1..NTest(Len(frame)) |-> frame[Permutation42[Len(frame)][i] + 1]]

SplitTrain(frame) ==
    [i \in 1..(Len(frame) - NTest(Len(frame))) |->
        frame[Permutation42[Len(frame)][NTest(Len(frame)) + i] + 1]]

\* XGBoost refuses a label that is NaN or infinite
LabelsFinite(frame, labels) ==
    \A i \in 1..Len(frame) : labels[frame[i].idx].t = "log"

(***************************************************************************)
(* The cells of the notebook.  pc names the statement that runs next;     *)
(* snap records df as each statement leaves it (a history variable, read  *)
(* by the properties only).                                                *)
(***************************************************************************)
\* Series.str exists on a text column only: a column read_csv found no text
\* in (every cell absent) is float64, and .str raises AttributeError
StrAccessorOk(frame, col) ==
    Len(frame) = 0 \/ \E i \in 1..Len(frame) : IsStr(Cell(frame[i], col))

AttributeError == "AttributeError: Can only use .str accessor with string values"

MapRows(frame, F(_)) == [i \in 1..Len(frame) |-> F(frame[i])]

\* an exception ends the run: nothing is assigned, no later cell runs
Abort(msg) ==
    /\ pc' = "aborted"
    /\ error' = msg
    /\ UNCHANGED <<df, columns, snap, file, mlvars>>

\* df[missing column] raises KeyError
KeyError == "KeyError: column not in df"

HasColumn(col) == col \in Range(columns)

\* a statement of cells 2-11 assigns df
Step(stage, next, frame, cols) ==
    /\ pc' = next
    /\ df' = frame
    /\ columns' = cols
    /\ snap' = (stage :> frame) @@ snap
    /\ UNCHANGED <<error, file, mlvars>>

\* cell 2: df = pd.read_csv(...)
ReadCsv ==
    /\ pc = "load"
    /\ IF file.kind = "missing"
       THEN Abort("FileNotFoundError: data/otodom_data.csv")
       ELSE IF file.kind = "empty"
       THEN Abort("EmptyDataError: No columns to parse from file")
       ELSE Step("load", "size", file.frame, file.columns)

\* cell 3
PreprocessSize ==
    /\ pc = "size"
    /\ IF ~HasColumn(SizeCol) THEN Abort(KeyError)
       ELSE IF ~StrAccessorOk(df, SizeCol) THEN Abort(AttributeError)
       ELSE IF \A i \in 1..Len(df) : AstypeFloatOk(SizeText(Cell(df[i], SizeCol)))
       THEN Step("size", "czynsz",
                 MapRows(df, LAMBDA r :
                     SetCol(r, SizeCol, AstypeFloat(SizeText(Cell(r, SizeCol))))),
                 columns)
       ELSE Abort("ValueError: could not convert string to float (size)")

\* cell 4
HandleCzynsz ==
    /\ pc = "czynsz"
    /\ IF ~HasColumn(CzynszCol) THEN Abort(KeyError)
       ELSE IF ~StrAccessorOk(df, CzynszCol) THEN Abort(AttributeError)
       ELSE IF \A i \in 1..Len(df) : AstypeFloatOk(CzynszText(Cell(df[i], CzynszCol)))
       THEN Step("czynsz", "has_czynsz",
                 MapRows(df, LAMBDA r :
                     SetCol(r, CzynszCol,
                            AstypeFloat(CzynszText(Cell(r, CzynszCol))))),
                 columns)
       ELSE Abort("ValueError: could not convert string to float (Czynsz)")

\* a slip: the indicator of a present rent (notna for isna)
has_czynsz_notna(r) == IF IsNaN(Cell(r, CzynszCol)) THEN Num(0, 0) ELSE Num(1, 0)

\* cell 5
has_czynsz(r) == IsNaInt(Cell(r, CzynszCol))

CreateHasCzynsz ==
    /\ pc = "has_czynsz"
    /\ Step("has_czynsz", "location",
            MapRows(df, LAMBDA r : SetCol(r, HasCzynszCol, has_czynsz(r))),
            WithColumn(columns, HasCzynszCol))

\* cell 6: each extract reads the location column, which is dropped last
DecomposeLocation(r) ==
    DropCol(
        SetCol(
            SetCol(
                SetCol(r, CityCol, ExtractCity(Cell(r, LocationCol))),
                NeighborhoodCol, ExtractNeighborhood(Cell(r, LocationCol))),
            RegionCol, ExtractRegion(Cell(r, LocationCol))),
        LocationCol)

ExtractLocation ==
    /\ pc = "location"
    /\ IF ~HasColumn(LocationCol) THEN Abort(KeyError)
       ELSE IF ~StrAccessorOk(df, LocationCol) THEN Abort(AttributeError)
       ELSE Step("location", "price",
                 MapRows(df, DecomposeLocation),
                 WithoutColumn(
                     WithColumn(WithColumn(WithColumn(columns, CityCol),
                                           NeighborhoodCol), RegionCol),
                     LocationCol))

\* cell 7, df.dropna(subset=['price'])
DropNaPrice(frame) == SelectSeq(frame, LAMBDA r : ~IsNaN(Cell(r, PriceCol)))

\* cell 7
PreprocessPrice ==
    /\ pc = "price"
    /\ IF ~HasColumn(PriceCol) THEN Abort(KeyError)
       ELSE IF ~StrAccessorOk(df, PriceCol) THEN Abort(AttributeError)
       ELSE IF \A i \in 1..Len(df) :
            AstypeFloatOk(PriceSentinel(PriceText(Cell(df[i], PriceCol))))
       THEN Step("price", "price_per_sqm",
                 DropNaPrice(MapRows(df, LAMBDA r :
                     SetCol(r, PriceCol,
                            AstypeFloat(PriceSentinel(PriceText(Cell(r, PriceCol))))))),
                 columns)
       ELSE Abort("ValueError: could not convert string to float (price)")

\* a slip: the rows whose quotient is missing are dropped
PricePerSqmDropNa ==
    /\ pc = "price_per_sqm"
    /\ Step("price_per_sqm", "amenities",
            SelectSeq(
                MapRows(df, LAMBDA r :
                    SetCol(r, PricePerSqmCol,
                           Divide(Cell(r, PriceCol), Cell(r, SizeCol)))),
                LAMBDA r : ~IsNaN(Cell(r, PricePerSqmCol))),
            WithColumn(columns, PricePerSqmCol))

\* cell 8
PricePerSqm ==
    /\ pc = "price_per_sqm"
    /\ Step("price_per_sqm", "amenities",
            MapRows(df, LAMBDA r :
                SetCol(r, PricePerSqmCol,
                       Divide(Cell(r, PriceCol), Cell(r, SizeCol)))),
            WithColumn(columns, PricePerSqmCol))

\* cell 9: the loop of extract_amenities over amenities[k..]
RECURSIVE AmenityLoop(_, _)
AmenityLoop(r, k) ==
    IF k > Len(amenities) THEN r
    ELSE AmenityLoop(
             SetCol(r, AmenityColumn(amenities[k]),
                    StrContains(Cell(r, InfoCol), amenities[k])),
             k + 1)

extract_amenities(r) == AmenityLoop(r, 1)

RECURSIVE AmenityColumns(_, _)
AmenityColumns(cols, k) ==
    IF k > Len(amenities) THEN cols
    ELSE AmenityColumns(WithColumn(cols, AmenityColumn(amenities[k])), k + 1)

ExtractAmenities ==
    /\ pc = "amenities"
    /\ IF ~HasColumn(InfoCol) THEN Abort(KeyError)
       ELSE IF ~StrAccessorOk(df, InfoCol) THEN Abort(AttributeError)
       ELSE Step("amenities", "outliers_price",
                 MapRows(df, LAMBDA r : DropCol(extract_amenities(r), InfoCol)),
                 WithoutColumn(AmenityColumns(columns, 1), InfoCol))

\* cell 10: df = remove_outliers(df, 'price')
RemoveOutliersPrice ==
    /\ pc = "outliers_price"
    /\ Step("outliers_price", "outliers_size",
            remove_outliers(df, PriceCol), columns)

\* a slip: the size fence taken from the rows as they were before the price
\* filter, applied to the rows that survived it
RemoveOutliersSizeStale ==
    /\ pc = "outliers_size"
    /\ Step("outliers_size", "log_price",
            SelectSeq(df, LAMBDA r :
                r.idx \in IdxSet(remove_outliers(snap["amenities"], SizeCol))),
            columns)

\* cell 10: df = remove_outliers(df, 'size')
RemoveOutliersSize ==
    /\ pc = "outliers_size"
    /\ Step("outliers_size", "log_price",
            remove_outliers(df, SizeCol), columns)

\* cell 11
LogTransform ==
    /\ pc = "log_price"
    /\ Step("log_price", "define_xy",
            MapRows(df, LAMBDA r :
                SetCol(r, LogPriceCol, NpLog(Cell(r, PriceCol)))),
            WithColumn(columns, LogPriceCol))

\* cell 12: X = df.drop(columns=['price', 'log_price', 'title']); y = df['log_price']
DefineXY ==
    /\ pc = "define_xy"
    /\ IF ~HasColumn(TitleCol) THEN Abort(KeyError)
       ELSE /\ pc' = "define_features"
            /\ snap' = ("define_xy" :> df) @@ snap
            /\ X' = MapRows(df, LAMBDA r :
                        DropCol(DropCol(DropCol(r, PriceCol), LogPriceCol), TitleCol))
            /\ y' = [ix \in IdxSet(df) |-> Cell(RowOf(df, ix), LogPriceCol)]
            /\ UNCHANGED <<df, columns, error, file, numerical_features,
                           categorical_features, preprocessor, model, X_train,
                           X_test, y_pred, mae, files, fit_log>>

\* cell 13: the two feature lists and the ColumnTransformer (not fitted)
DefineFeatures ==
    /\ pc = "define_features"
    /\ pc' = "define_model"
    /\ snap' = ("define_features" :> df) @@ snap
    /\ categorical_features' = CategoricalFeatures
    /\ numerical_features' = NumericalFeatures(columns)
    /\ preprocessor' =
          UnfittedPreprocessor(NumericalFeatures(columns), CategoricalFeatures)
    /\ UNCHANGED <<df, columns, error, file, X, y, model, X_train, X_test,
                   y_pred, mae, files, fit_log>>

\* the two files of cell 17
ModelFile == "housing_price_predictor_model.pkl"

PreprocessorFile == "preprocessor.pkl"

\* a slip: the model is dumped as soon as it is constructed
DefineModelAndDump ==
    /\ pc = "define_model"
    /\ pc' = "fit"
    /\ snap' = ("define_model" :> df) @@ snap
    /\ model' = [preprocessor |-> preprocessor, regressor |-> [fitted |-> FALSE]]
    /\ files' = (ModelFile :> model') @@ files
    /\ UNCHANGED <<df, columns, error, file, X, y, numerical_features,
                   categorical_features, preprocessor, X_train, X_test, y_pred,
                   mae, fit_log>>

\* cell 14: the Pipeline holds the preprocessor object itself (no copy) and a
\* new XGBRegressor
DefineModel ==
    /\ pc = "define_model"
    /\ pc' = "fit"
    /\ snap' = ("define_model" :> df) @@ snap
    /\ model' = [preprocessor |-> preprocessor, regressor |-> [fitted |-> FALSE]]
    /\ UNCHANGED <<df, columns, error, file, X, y, numerical_features,
                   categorical_features, preprocessor, X_train, X_test, y_pred,
                   mae, files, fit_log>>

ColumnMissing == "ValueError: A given column is not a column of the dataframe"

\* cell 15: the split, then model.fit(X_train, y_train): the preprocessor is
\* fitted in place on X_train, then the regressor on the transformed rows.
\* An exception in fit leaves what was assigned before it.
SplitFit ==
    /\ pc = "fit"
    /\ IF Len(X) - NTest(Len(X)) = 0
       THEN Abort("ValueError: the resulting train set will be empty")
       ELSE LET train == SplitTrain(X)
                fitted == FitPreprocessor(preprocessor, train)
            IN  /\ X_train' = train
                /\ X_test' = SplitTest(X)
                /\ UNCHANGED <<df, columns, file, X, y, numerical_features,
                               categorical_features, y_pred, mae, files>>
                /\ IF ~FeaturesPresent(preprocessor)
                   THEN /\ pc' = "aborted"
                        /\ error' = ColumnMissing
                        /\ UNCHANGED <<snap, preprocessor, model, fit_log>>
                   ELSE IF ~NumericFinite(preprocessor, train)
                   THEN /\ pc' = "aborted"
                        /\ error' = "ValueError: Input X contains infinity"
                        /\ UNCHANGED <<snap, preprocessor, model, fit_log>>
                   ELSE /\ preprocessor' = fitted
                        /\ fit_log' = Append(fit_log, IdxSet(train))
                        /\ IF ~LabelsFinite(train, y)
                           THEN /\ pc' = "aborted"
                                /\ error' = "XGBoostError: Label contains NaN, infinity or a value too large"
                                /\ model' = [model EXCEPT !.preprocessor = fitted]
                                /\ UNCHANGED snap
                           ELSE /\ pc' = "evaluate"
                                /\ model' = [preprocessor |-> fitted,
                                             regressor |-> [fitted |-> TRUE,
                                                            rows |-> IdxSet(train)]]
                                /\ snap' = ("fit" :> df) @@ snap
                                /\ UNCHANGED error

\* model.predict on one row: the regressor's value on the transformed row
Predict(m, r) == [t |-> "predict", x |-> Transform(m.preprocessor, r)]

\* a slip: predict fits the preprocessor again, on the rows it is given
EvaluateRefit ==
    /\ pc = "evaluate"
    /\ IF ~NumericFinite(model.preprocessor, X_test)
       THEN Abort("ValueError: Input X contains infinity")
       ELSE LET refitted == FitPreprocessor(preprocessor, X_test)
            IN  /\ pc' = "save"
                /\ snap' = ("evaluate" :> df) @@ snap
                /\ preprocessor' = refitted
                /\ model' = [model EXCEPT !.preprocessor = refitted]
                /\ fit_log' = Append(fit_log, IdxSet(X_test))
                /\ y_pred' = [i \in 1..Len(X_test) |->
                                 NpExp(Predict(model', X_test[i]))]
                /\ mae' = [t |-> "mean_absolute_error",
                           y_true |-> [i \in 1..Len(X_test) |->
                                          NpExp(y[X_test[i].idx])],
                           y_pred |-> y_pred']
                /\ UNCHANGED <<df, columns, error, file, X, y,
                               numerical_features, categorical_features,
                               X_train, X_test, files>>

\* a slip: the held-out targets enter the error as they are, in log units
EvaluateLogUnits ==
    /\ pc = "evaluate"
    /\ IF ~NumericFinite(model.preprocessor, X_test)
       THEN Abort("ValueError: Input X contains infinity")
       ELSE /\ pc' = "save"
            /\ snap' = ("evaluate" :> df) @@ snap
            /\ y_pred' = [i \in 1..Len(X_test) |-> NpExp(Predict(model, X_test[i]))]
            /\ mae' = [t |-> "mean_absolute_error",
                       y_true |-> [i \in 1..Len(X_test) |-> y[X_test[i].idx]],
                       y_pred |-> y_pred']
            /\ UNCHANGED <<df, columns, error, file, X, y, numerical_features,
                           categorical_features, preprocessor, model, X_train,
                           X_test, files, fit_log>>

\* cell 16: y_pred = np.exp(model.predict(X_test));
\* mae = mean_absolute_error(np.exp(y_test), y_pred)
Evaluate ==
    /\ pc = "evaluate"
    /\ IF ~NumericFinite(model.preprocessor, X_test)
       THEN Abort("ValueError: Input X contains infinity")
       ELSE /\ pc' = "save"
            /\ snap' = ("evaluate" :> df) @@ snap
            /\ y_pred' = [i \in 1..Len(X_test) |-> NpExp(Predict(model, X_test[i]))]
            /\ mae' = [t |-> "mean_absolute_error",
                       y_true |-> [i \in 1..Len(X_test) |-> NpExp(y[X_test[i].idx])],
                       y_pred |-> y_pred']
            /\ UNCHANGED <<df, columns, error, file, X, y, numerical_features,
                           categorical_features, preprocessor, model, X_train,
                           X_test, files, fit_log>>

\* a slip: preprocessor.pkl gets a ColumnTransformer built anew from the lists
SaveNewPreprocessor ==
    /\ pc = "save"
    /\ pc' = "done"
    /\ snap' = ("save" :> df) @@ snap
    /\ files' = (ModelFile :> model)
                   @@ (PreprocessorFile :>
                          UnfittedPreprocessor(numerical_features, categorical_features))
                   @@ files
    /\ UNCHANGED <<df, columns, error, file, X, y, numerical_features,
                   categorical_features, preprocessor, model, X_train, X_test,
                   y_pred, mae, fit_log>>

\* cell 17: joblib.dump(model, ...); joblib.dump(preprocessor, ...)
Save ==
    /\ pc = "save"
    /\ pc' = "done"
    /\ snap' = ("save" :> df) @@ snap
    /\ files' = (ModelFile :> model) @@ (PreprocessorFile :> preprocessor) @@ files
    /\ UNCHANGED <<df, columns, error, file, X, y, numerical_features,
                   categorical_features, preprocessor, model, X_train, X_test,
                   y_pred, mae, fit_log>>

Next ==
    \/ ReadCsv
    \/ PreprocessSize
    \/ HandleCzynsz
    \/ CreateHasCzynsz
    \/ ExtractLocation
    \/ PreprocessPrice
    \/ PricePerSqm
    \/ ExtractAmenities
    \/ RemoveOutliersPrice
    \/ RemoveOutliersSize
    \/ LogTransform
    \/ DefineXY
    \/ DefineFeatures
    \/ DefineModel
    \/ SplitFit
    \/ Evaluate
    \/ Save

(***************************************************************************)
(* Datasets.  pd.read_csv (cell 2) gives a text column whenever one of    *)
(* its cells is not a number; an absent cell is NaN.  Every dataset below *)
(* is a file the notebook can be given.  The notebook never reads a row's *)
(* position, so the whole-run specification takes one ordering of each    *)
(* multiset of rows.                                                       *)
(***************************************************************************)
RawColumns ==
    <<TitleCol, SizeCol, CzynszCol, LocationCol, PriceCol, InfoCol,
      OgrzewanieCol, PietroCol, StanWykonczeniaCol, RynekCol,
      FormaWlasnosciCol, TypOgloszeniodawcyCol>>

\* the columns cells 3-11 leave alone, with one text each
OtherCells ==
    (TitleCol :> Str(<<"M", "i", "e", "s", "z", "k", "a", "n", "i", "e">>))
        @@ (OgrzewanieCol :> Str(<<"m", "i", "e", "j", "s", "k", "i", "e">>))
        @@ (PietroCol :> Str(<<"1", "/", "4">>))
        @@ (StanWykonczeniaCol :> Str(<<"d", "o", " ", "r", "e", "m", "o", "n", "t", "u">>))
        @@ (RynekCol :> Str(<<"w", "t", "oacute", "r", "n", "y">>))
        @@ (FormaWlasnosciCol :> Str(<<"p", "e", "lstroke", "n", "a">>))
        @@ (TypOgloszeniodawcyCol :> Str(<<"p", "r", "y", "w", "a", "t", "n", "y">>))

RawRow(size, czynsz, location, price, info) ==
    (SizeCol :> size) @@ (CzynszCol :> czynsz) @@ (LocationCol :> location)
        @@ (PriceCol :> price) @@ (InfoCol :> info) @@ OtherCells

\* the RangeIndex read_csv gives the rows
Frame(rows) == [i \in 1..Len(rows) |-> [idx |-> i - 1, cells |-> rows[i]]]

Zl(body) == Str(body \o ZlSuffix)

M2(body) == Str(body \o <<" ">> \o M2Suffix)

DefaultSize == M2(<<"2">>)

DefaultCzynsz == Zl(<<"1">>)

DefaultLocation == Str(<<"a", ",", " ", "b", ",", " ", "a">>)

DefaultPrice == Zl(<<"2">>)

DefaultInfo == Str(amenities[1] \o <<",", " ">> \o amenities[2])

DefaultRow ==
    RawRow(DefaultSize, DefaultCzynsz, DefaultLocation, DefaultPrice, DefaultInfo)

\* 'Price not available', as the file spells it
PriceNotAvailableRaw ==
    <<"P", "r", "i", "c", "e", " ", "n", "o", "t", " ",
      "a", "v", "a", "i", "l", "a", "b", "l", "e">>

\* texts that are no number and no sentinel
DoNegocjacji ==
    <<"d", "o", " ", "n", "e", "g", "o", "c", "j", "a", "c", "j", "i">>

Zapytaj == <<"Z", "a", "p", "y", "t", "a", "j">>

RunPrices == <<Zl(<<"0">>), Zl(<<"2">>), Zl(<<"9">>)>>

RunSizes == <<M2(<<"1">>), M2(<<"9">>)>>

RunSpecials ==
    << [DefaultRow EXCEPT ![PriceCol] = Str(PriceNotAvailableRaw)],
       [DefaultRow EXCEPT ![CzynszCol] = Str(BrakInformacji)],
       [DefaultRow EXCEPT ![CzynszCol] = NaN],
       [DefaultRow EXCEPT ![SizeCol] = NaN],
       [DefaultRow EXCEPT ![PriceCol] = Str(Zapytaj)] >>

RunRows ==
    [k \in 1..(Len(RunPrices) * Len(RunSizes)) |->
        [DefaultRow EXCEPT
            ![PriceCol] = RunPrices[((k - 1) % Len(RunPrices)) + 1],
            ![SizeCol] = RunSizes[((k - 1) \div Len(RunPrices)) + 1]]]
    \o RunSpecials

\* the non-decreasing sequences of n numbers of lo..hi
RECURSIVE SortedSeqs(_, _, _)
SortedSeqs(n, lo, hi) ==
    IF n = 0 THEN {<<>>}
    ELSE UNION {{<<i>> \o t : t \in SortedSeqs(n - 1, i, hi)} : i \in lo..hi}

\* the datasets of 1..maxRows rows of RunRows, as index sequences
RunChoices(maxRows) == UNION {SortedSeqs(n, 1, Len(RunRows)) : n \in 1..maxRows}

RunFrame(ks) == Frame([i \in 1..Len(ks) |-> RunRows[ks[i]]])

\* all texts of at most n characters of alphabet A
Texts(A, n) == UNION {[1..k -> A] : k \in 0..n}

BodyChars == {"0", "1", " ", ","}

\* a second listing, of another price and size than the default row
SecondRow ==
    [DefaultRow EXCEPT ![PriceCol] = Zl(<<"9">>), ![SizeCol] = M2(<<"9">>)]

\* a dataset of two rows: the default row and a second one with c in column col
FrameWith(col, c) == Frame(<<DefaultRow, [SecondRow EXCEPT ![col] = c]>>)

NormalizerCells(suffix, maxBody) ==
    {Str(b \o x) : b \in Texts(BodyChars, maxBody) \ {<<>>},
                   x \in {<<>>, suffix, <<" ">> \o suffix}}
        \cup {NaN, Str(DoNegocjacji)}

LocationChars == {"a", "b", ",", " "}

LocationCells(maxLen) ==
    {Str(t) : t \in Texts(LocationChars, maxLen) \ {<<>>}} \cup {NaN}

\* locations of three tokens of which one is two words, or hyphenated
LocationExtras ==
    { Str(<<"a", " ", "b", ",", " ", "a", ",", " ", "b">>),
      Str(<<"a", ",", " ", "a", " ", "b", ",", " ", "b">>),
      Str(<<"a", ",", " ", "b", ",", " ", "a", " ", "b">>),
      Str(<<"a", ",", " ", "a", "-", "b", ",", " ", "b">>) }

\* phrases an 'Informacje dodatkowe' text is joined from: the vocabulary,
\* other spellings of it, and words that are not in it
InfoPieces ==
    Range(amenities) \cup
    { <<"B", "A", "L", "K", "O", "N">>,
      <<"T", "a", "r", "a", "s">>,
      <<"G", "a", "r", "a", "ZDOT", "/", "M", "i", "e", "j", "s", "c", "e", " ",
        "P", "a", "r", "k", "i", "n", "g", "o", "w", "e">>,
      <<"O", "G", "R", "OACUTE", "D", "E", "K">>,
      <<"P", "o", "m", ".", " ", "U", "zdot", "y", "t", "k", "o", "w", "e">>,
      <<"p", "o", "m", ",", " ", "u", "zdot", "y", "t", "k", "o", "w", "e">>,
      <<"p", "o", "m", " ", "u", "zdot", "y", "t", "k", "o", "w", "e">>,
      <<"b", "a", "l", "k", "o">>,
      <<"w", "i", "n", "d", "a">> }

RECURSIVE Join(_)
Join(ps) ==
    IF Len(ps) = 1 THEN ps[1] ELSE ps[1] \o <<",", " ">> \o Join(Tail(ps))

InfoTexts(maxPieces) == {Join(ps) : ps \in UNION {[1..k -> InfoPieces] : k \in 1..maxPieces}}

InfoCells(maxPieces) == {Str(t) : t \in InfoTexts(maxPieces)} \cup {NaN}

\* a name no cell has bound yet
Undefined == [t |-> "undefined"]

\* the file at data/otodom_data.csv with a header and rows
CsvFile(cols, frame) == [kind |-> "csv", columns |-> cols, frame |-> frame]

\* the kernel has started and cell 1 has run: no name is bound, no file is
\* written, cell 2 is next
InitFile(f) ==
    /\ file = f
    /\ pc = "load"
    /\ df = <<>>
    /\ columns = <<>>
    /\ error = ""
    /\ snap = <<>>
    /\ X = Undefined
    /\ y = Undefined
    /\ numerical_features = Undefined
    /\ categorical_features = Undefined
    /\ preprocessor = Undefined
    /\ model = Undefined
    /\ X_train = Undefined
    /\ X_test = Undefined
    /\ y_pred = Undefined
    /\ mae = Undefined
    /\ files = <<>>
    /\ fit_log = <<>>

InitWith(frame) == InitFile(CsvFile(RawColumns, frame))

Init == \E ks \in RunChoices(MaxRows) : InitWith(RunFrame(ks))

InitNormalizer ==
    \/ \E c \in NormalizerCells(M2Suffix, MaxBody) :
          InitWith(FrameWith(SizeCol, c))
    \/ \E c \in NormalizerCells(ZlSuffix, MaxBody) \cup {Str(BrakInformacji)} :
          InitWith(FrameWith(CzynszCol, c))
    \/ \E c \in NormalizerCells(ZlSuffix, MaxBody) \cup {Str(PriceNotAvailableRaw)} :
          InitWith(FrameWith(PriceCol, c))

InitLocation ==
    \E c \in LocationCells(MaxLocLen) \cup LocationExtras :
        InitWith(FrameWith(LocationCol, c))

InitAmenities ==
    \E c \in InfoCells(MaxPieces) : InitWith(FrameWith(InfoCol, c))

Pierwotny == Str(<<"p", "i", "e", "r", "w", "o", "t", "n", "y">>)

\* listings for the runs that reach the fit: their order matters to the
\* split, so these datasets are sequences
PipelineRows ==
    << DefaultRow,
       SecondRow,
       [DefaultRow EXCEPT ![PriceCol] = Zl(<<"9">>),
                          ![LocationCol] = Str(<<"b", ",", " ", "a", ",", " ", "b">>),
                          ![RynekCol] = Pierwotny],
       [DefaultRow EXCEPT ![SizeCol] = M2(<<"9">>), ![LocationCol] = NaN,
                          ![RynekCol] = NaN, ![CzynszCol] = NaN],
       [DefaultRow EXCEPT ![SizeCol] = M2(<<"0">>)],
       [DefaultRow EXCEPT ![SizeCol] = M2(<<"0">>), ![PriceCol] = Zl(<<"9">>)],
       [DefaultRow EXCEPT ![SizeCol] = M2(<<"9">>),
                          ![PriceCol] = Zl(<<"1", "0", "0">>),
                          ![CzynszCol] = Str(BrakInformacji)],
       [DefaultRow EXCEPT ![SizeCol] = M2(<<"9">>), ![PriceCol] = Zl(<<"0">>)] >>

\* the datasets of 2..maxRows rows of PipelineRows, as index sequences
PipelineChoices(maxRows) ==
    UNION {[1..n -> 1..Len(PipelineRows)] : n \in 2..maxRows}

PipelineFrame(ks) == Frame([i \in 1..Len(ks) |-> PipelineRows[ks[i]]])

InitPipeline == \E ks \in PipelineChoices(MaxFitRows) : InitWith(PipelineFrame(ks))

\* the rows of a file whose header is cols
Project(frame, cols) ==
    [i \in 1..Len(frame) |->
        [idx |-> frame[i].idx,
         cells |-> [c \in Range(cols) |-> frame[i].cells[c]]]]

\* a header and no row, two rows, three rows
StructuralFrames ==
    {Frame(<<>>), PipelineFrame(<<1, 2>>), PipelineFrame(<<3, 4, 2>>)}

\* no file, a file of zero bytes, and files that lack at most one column
InitStructural ==
    \/ InitFile([kind |-> "missing"])
    \/ InitFile([kind |-> "empty"])
    \/ \E frame \in StructuralFrames :
       \E cols \in {RawColumns}
                     \cup {WithoutColumn(RawColumns, RawColumns[j]) :
                              j \in 1..Len(RawColumns)} :
           InitFile(CsvFile(cols, Project(frame, cols)))

\* the whole run on datasets of up to MaxRows rows
Spec == Init /\ [][Next]_vars

\* the whole run on datasets that vary one numeric text cell
SpecNormalizer == InitNormalizer /\ [][Next]_vars

\* the whole run on datasets that vary one location string
SpecLocation == InitLocation /\ [][Next]_vars

\* the whole run on datasets that vary one 'Informacje dodatkowe' text
SpecAmenities == InitAmenities /\ [][Next]_vars

\* the whole run on ordered datasets of up to MaxFitRows rows
SpecPipeline == InitPipeline /\ [][Next]_vars

\* the whole run on absent, empty and incomplete files
SpecStructural == InitStructural /\ [][Next]_vars

(***************************************************************************)
(* Properties.  Ran(stage) says the statement has completed; snap[stage]  *)
(* is df as it left it, and snap["load"] the file as read.                *)
(***************************************************************************)
Ran(stage) == stage \in DOMAIN snap

CommaPositions(s) == {i \in 1..Len(s) : s[i] = ","}

\* the comma-separated tokens of s, each without its leading blanks
RECURSIVE SplitComma(_)
SplitComma(s) ==
    IF CommaPositions(s) = {} THEN <<LStrip(s)>>
    ELSE LET p == CHOOSE i \in CommaPositions(s) :
                      \A j \in CommaPositions(s) : i <= j
         IN  <<LStrip(SubSeq(s, 1, p - 1))>>
                 \o SplitComma(SubSeq(s, p + 1, Len(s)))

SingleWord(tok) == tok # <<>> /\ \A i \in 1..Len(tok) : IsWord(tok[i])

\* the last three tokens of the text are single words
EndsInThreeWords(s) ==
    LET toks == SplitComma(s) IN
    /\ Len(toks) >= 3
    /\ \A k \in (Len(toks) - 2)..Len(toks) : SingleWord(toks[k])

\* the longest run of word characters the text ends in
RECURSIVE TrailingWord(_)
TrailingWord(s) ==
    IF s # <<>> /\ IsWord(s[Len(s)])
    THEN Append(TrailingWord(SubSeq(s, 1, Len(s) - 1)), s[Len(s)])
    ELSE <<>>

\* C1 (as the spec states it): when the last three comma-separated tokens of
\* a location string are single words A, B, C, the extracted fields are
\* neighborhood = A, city = B and region = C.
C1_LastThreeTokens ==
    Ran("location") =>
        \A i \in 1..Len(snap["load"]) :
            LET loc == Cell(snap["load"][i], LocationCol)
                toks == SplitComma(loc.s)
                n == Len(toks)
                out == snap["location"][i]
            IN  (IsStr(loc) /\ EndsInThreeWords(loc.s)) =>
                    /\ Cell(out, NeighborhoodCol) = Str(toks[n - 2])
                    /\ Cell(out, CityCol) = Str(toks[n - 1])
                    /\ Cell(out, RegionCol) = Str(toks[n])

\* C2 (as the spec states it): a single-token location string with no comma
\* yields "missing" for city, for neighborhood and for region.
C2_SingleTokenAllMissing ==
    Ran("location") =>
        \A i \in 1..Len(snap["load"]) :
            LET loc == Cell(snap["load"][i], LocationCol)
                out == snap["location"][i]
            IN  (IsStr(loc) /\ SingleWord(loc.s)) =>
                    /\ IsNaN(Cell(out, CityCol))
                    /\ IsNaN(Cell(out, NeighborhoodCol))
                    /\ IsNaN(Cell(out, RegionCol))

\* C2 (amended): for a location string with fewer than two commas, city and
\* neighborhood are "missing", while region is the run of word characters
\* the string ends in ("missing" only when it ends in none), so a
\* single-token string gives region = that token; the extraction never
\* aborts the run.
C2_FewCommas ==
    /\ pc # "aborted"
    /\ Ran("location") =>
        \A i \in 1..Len(snap["load"]) :
            LET loc == Cell(snap["load"][i], LocationCol)
                out == snap["location"][i]
            IN  (IsStr(loc) /\ Cardinality(CommaPositions(loc.s)) < 2) =>
                    /\ IsNaN(Cell(out, CityCol))
                    /\ IsNaN(Cell(out, NeighborhoodCol))
                    /\ Cell(out, RegionCol) =
                          (IF TrailingWord(loc.s) = <<>> THEN NaN
                           ELSE Str(TrailingWord(loc.s)))

\* C2 witness: the extraction has run on a single-token string, and region
\* is that token
C2_Witness ==
    /\ Ran("location")
    /\ \E i \in 1..Len(snap["load"]) :
          LET loc == Cell(snap["load"][i], LocationCol)
          IN  /\ IsStr(loc) /\ SingleWord(loc.s) /\ Len(loc.s) > 1
              /\ IsNaN(Cell(snap["location"][i], CityCol))
              /\ Cell(snap["location"][i], RegionCol) = loc

NumOrNaN(c) == IsNum(c) \/ IsNaN(c)

\* C3 (as the spec states it): whatever text the size and rent cells hold,
\* cells 3 and 4 finish, every such cell becomes a number or "missing", and
\* no row leaves the dataset.
C3_SizeRentNeverFatal ==
    /\ (Ran("load") /\ pc # "size") =>
          /\ Ran("size")
          /\ IdxSet(snap["size"]) = IdxSet(snap["load"])
          /\ \A i \in 1..Len(snap["size"]) :
                NumOrNaN(Cell(snap["size"][i], SizeCol))
    /\ (Ran("size") /\ pc # "czynsz") =>
          /\ Ran("czynsz")
          /\ IdxSet(snap["czynsz"]) = IdxSet(snap["load"])
          /\ \A i \in 1..Len(snap["czynsz"]) :
                NumOrNaN(Cell(snap["czynsz"][i], CzynszCol))

\* whether cell 7's cleaning leaves a text that float() reads as a number
PriceParses(c) == IsStr(c) /\ FloatOk(PriceText(c).s)

\* C4 (as the spec states it): a row whose price cell does not parse as a
\* number (the sentinel or any other text) is removed and the run goes on
\* with the other rows; no row with a missing price survives cell 7.
C4_UnparsedPriceDropsRow ==
    (Ran("location") /\ pc # "price") =>
        /\ Ran("price")
        /\ IdxSet(snap["price"]) =
              {r.idx : r \in {x \in Range(snap["location"]) :
                                  PriceParses(Cell(x, PriceCol))}}
        /\ \A i \in 1..Len(snap["price"]) :
              IsNum(Cell(snap["price"][i], PriceCol))

\* C5 (as the spec states it): every row that reaches the log transform has
\* price > 0, so its log_price is finite.
C5_PricePositiveAtLog ==
    Ran("log_price") =>
        \A i \in 1..Len(snap["log_price"]) :
            /\ Cell(snap["log_price"][i], PriceCol).m > 0
            /\ Cell(snap["log_price"][i], LogPriceCol).t = "log"

\* the phrase occurs in the text letter for letter, whatever the case
LiteralSubstring(s, phrase) ==
    \E i \in 1..(Len(s) + 1) :
        /\ i + Len(phrase) - 1 <= Len(s)
        /\ \A k \in 1..Len(phrase) : Lower(s[i + k - 1]) = Lower(phrase[k])

\* C8 (as the spec states it): each of the seven indicators is 1 exactly when
\* its phrase is a literal, case-insensitive substring of the row's
\* 'Informacje dodatkowe' text, and 0 otherwise (0 for a missing text).
C8_IndicatorIffLiteralPhrase ==
    Ran("amenities") =>
        \A i \in 1..Len(snap["amenities"]) :
            LET row == snap["amenities"][i]
                info == Cell(RowOf(snap["load"], row.idx), InfoCol)
            IN  \A k \in 1..Len(amenities) :
                    Cell(row, AmenityColumn(amenities[k])) =
                        (IF IsStr(info) /\ LiteralSubstring(info.s, amenities[k])
                         THEN Num(1, 0) ELSE Num(0, 0))

AllDigits(s) == s # <<>> /\ \A i \in 1..Len(s) : s[i] \in DigitChars

\* digit groups parted by single blanks: one to three digits, then threes
RECURSIVE Grouped(_)
Grouped(s) ==
    \/ AllDigits(s) /\ Len(s) <= 3
    \/ /\ Len(s) > 4
       /\ AllDigits(SubSeq(s, Len(s) - 2, Len(s)))
       /\ s[Len(s) - 3] = " "
       /\ Grouped(SubSeq(s, 1, Len(s) - 4))

\* the text before the unit: grouped digits, then perhaps a decimal comma
\* and fraction digits
LocaleNumber(b) ==
    \/ Grouped(b)
    \/ \E p \in 1..Len(b) :
          /\ b[p] = ","
          /\ Grouped(SubSeq(b, 1, p - 1))
          /\ AllDigits(SubSeq(b, p + 1, Len(b)))

\* the decimal number a locale-formatted text denotes
LocaleValue(b) ==
    LET ds == SelectSeq(b, LAMBDA ch : ch \in DigitChars)
        p == IF CommaPositions(b) = {} THEN Len(b)
             ELSE CHOOSE i \in CommaPositions(b) : TRUE
    IN  Num(DigitsValue(ds), Len(b) - p)

\* the spellings of a field's unit: ' zł' for rent and price; 'm²' for
\* size, with or without a blank before it
ZlUnits == {ZlSuffix}

M2Units == {M2Suffix, <<" ">> \o M2Suffix}

\* the cell ends in the unit, and what precedes it is a locale number
EndsIn(c, unit) ==
    /\ Len(c.s) > Len(unit)
    /\ SubSeq(c.s, Len(c.s) - Len(unit) + 1, Len(c.s)) = unit
    /\ LocaleNumber(SubSeq(c.s, 1, Len(c.s) - Len(unit)))

\* the cell is a locale-formatted number followed by the field's unit
HasFormat(c, units) == IsStr(c) /\ \E unit \in units : EndsIn(c, unit)

FormatValue(c, units) ==
    LET unit == CHOOSE u \in units : EndsIn(c, u)
    IN  LocaleValue(SubSeq(c.s, 1, Len(c.s) - Len(unit)))

\* every cell of the column is in the format
AllInFormat(col, units) ==
    /\ Ran("load")
    /\ \A i \in 1..Len(snap["load"]) : HasFormat(Cell(snap["load"][i], col), units)

\* the statement that normalizes column col has run, and each cell of the
\* column came out as the number it denotes
ExactAfter(stage, col, units) ==
    /\ Ran(stage)
    /\ \A i \in 1..Len(snap["load"]) :
          /\ snap["load"][i].idx \in IdxSet(snap[stage])
          /\ Cell(RowOf(snap[stage], snap["load"][i].idx), col)
                = FormatValue(Cell(snap["load"][i], col), units)

\* C9 (as the spec states it): a size, rent or price cell made of digit
\* groups separated by single spaces, an optional decimal comma with
\* fraction digits, and the field's unit is normalized to exactly the
\* decimal number it denotes, for all three fields.  Stated of a column all
\* of whose cells are in the format, so that no other cell decides it.
C9_ExactValueAllFields ==
    /\ (AllInFormat(SizeCol, M2Units) /\ pc # "size")
          => ExactAfter("size", SizeCol, M2Units)
    /\ (AllInFormat(CzynszCol, ZlUnits) /\ Ran("size") /\ pc # "czynsz")
          => ExactAfter("czynsz", CzynszCol, ZlUnits)
    /\ (AllInFormat(PriceCol, ZlUnits) /\ Ran("location") /\ pc # "price")
          => ExactAfter("price", PriceCol, ZlUnits)

\* the part of C9 about rent and price alone
C9_RentPriceExact ==
    /\ (AllInFormat(CzynszCol, ZlUnits) /\ Ran("size") /\ pc # "czynsz")
          => ExactAfter("czynsz", CzynszCol, ZlUnits)
    /\ (AllInFormat(PriceCol, ZlUnits) /\ Ran("location") /\ pc # "price")
          => ExactAfter("price", PriceCol, ZlUnits)

\* rent and price cells in the format with a thousands group have been read
C9_RentPriceSeen ==
    /\ Ran("price")
    /\ \E i \in 1..Len(snap["load"]) :
          \E col \in {CzynszCol, PriceCol} :
              /\ HasFormat(Cell(snap["load"][i], col), ZlUnits)
              /\ " " \in Range(SubSeq(Cell(snap["load"][i], col).s, 1, MaxBody))

\* the present values of a column, as integers in units of 10^-ColExp
ScaledValues(frame, column) ==
    LET pres == Present(frame, column)
    IN  [i \in 1..Len(pres) |-> Scaled(pres[i], ColExp(frame, column))]

\* Q1 - 1.5*IQR < v < Q3 + 1.5*IQR for the value of row r, the quartiles
\* being those of the column's present values in frame (times 8 throughout)
StrictlyInside(r, frame, column) ==
    LET xs == ScaledValues(frame, column)
        v == Scaled(Cell(r, column), ColExp(frame, column))
        q1 == Quantile4(xs, 1)
        q3 == Quantile4(xs, 3)
    IN  /\ IsNum(Cell(r, column))
        /\ 8 * v > 2 * q1 - 3 * (q3 - q1)
        /\ 8 * v < 2 * q3 + 3 * (q3 - q1)

KeepInside(frame, column) ==
    SelectSeq(frame, LAMBDA r : StrictlyInside(r, frame, column))

\* one call of remove_outliers: df before, df after, the column
OutlierCalls ==
    { <<"amenities", "outliers_price", PriceCol>>,
      <<"outliers_price", "outliers_size", SizeCol>> }

\* C6: remove_outliers(df, column) returns exactly the rows of df whose value
\* is strictly between Q1 - 1.5*IQR and Q3 + 1.5*IQR, the quartiles taken
\* over the column's present values in df; a row with a missing value is
\* excluded; if some row is on or outside a fence the row count strictly
\* decreases; every surviving value is strictly inside the fence of the call.
C6_RetentionRule ==
    \A call \in OutlierCalls :
        Ran(call[2]) =>
            LET before == snap[call[1]]
                after == snap[call[2]]
            IN  /\ after = KeepInside(before, call[3])
                /\ \A i \in 1..Len(after) : IsNum(Cell(after[i], call[3]))
                /\ (\E i \in 1..Len(before) :
                        ~StrictlyInside(before[i], before, call[3]))
                      => Len(after) < Len(before)
                /\ \A i \in 1..Len(after) :
                      StrictlyInside(after[i], before, call[3])

\* C6 witness: both calls have run; the price call dropped a row whose price
\* is a number and kept another, the size call dropped a row whose size is
\* missing and kept another
C6_Witness ==
    /\ Ran("outliers_size")
    /\ \E i \in 1..Len(snap["amenities"]) :
          /\ IsNum(Cell(snap["amenities"][i], PriceCol))
          /\ snap["amenities"][i].idx \notin IdxSet(snap["outliers_price"])
    /\ \E i \in 1..Len(snap["outliers_price"]) :
          IsNaN(Cell(snap["outliers_price"][i], SizeCol))
    /\ snap["outliers_size"] # <<>>

\* C7: the filter runs on price first and then on size, the size quartiles
\* being those of the rows that survived the price filter: the rows left
\* are size_filter(price_filter(rows)).
C7_PriceThenSize ==
    Ran("outliers_size") =>
        snap["outliers_size"] =
            KeepInside(KeepInside(snap["amenities"], PriceCol), SizeCol)

\* C7 witness: a dataset on which the order matters: the rows left differ
\* from price_filter(size_filter(rows)), and from the rows a size fence
\* computed over the unfiltered rows would leave
C7_Witness ==
    /\ Ran("outliers_size")
    /\ snap["outliers_size"] #
          KeepInside(KeepInside(snap["amenities"], SizeCol), PriceCol)
    /\ IdxSet(snap["outliers_size"]) #
          IdxSet(snap["outliers_price"])
              \cap IdxSet(KeepInside(snap["amenities"], SizeCol))

\* C10: in every row, has_czynsz is 1 exactly when the rent is "missing"
\* after cell 4 (the cell was 'brak informacji' or absent) and 0 when it was
\* read as a number; no later statement changes it.
C10_HasCzynszIffMissing ==
    \A stage \in DOMAIN snap :
        \A i \in 1..Len(snap[stage]) :
            LET row == snap[stage][i]
                raw == Cell(RowOf(snap["load"], row.idx), CzynszCol)
                rent == Cell(RowOf(snap["czynsz"], row.idx), CzynszCol)
            IN  HasCzynszCol \in DOMAIN row.cells =>
                    /\ Cell(row, HasCzynszCol) \in {Num(0, 0), Num(1, 0)}
                    /\ Cell(row, HasCzynszCol) = Num(1, 0) <=> IsNaN(rent)
                    /\ IsNaN(rent) <=> (IsNaN(raw) \/ raw = Str(BrakInformacji))
                    /\ IsNum(rent) => Cell(row, HasCzynszCol) = Num(0, 0)

\* C10 witness: the run is over, and rows of all three kinds are left: rent
\* 'brak informacji', rent absent, rent a number
C10_Witness ==
    /\ pc = "done"
    /\ \E i \in 1..Len(df) :
          /\ Cell(RowOf(snap["load"], df[i].idx), CzynszCol) = Str(BrakInformacji)
          /\ Cell(df[i], HasCzynszCol) = Num(1, 0)
    /\ \E i \in 1..Len(df) :
          /\ IsNaN(Cell(RowOf(snap["load"], df[i].idx), CzynszCol))
          /\ Cell(df[i], HasCzynszCol) = Num(1, 0)
    /\ \E i \in 1..Len(df) :
          /\ IsNum(Cell(df[i], CzynszCol))
          /\ Cell(df[i], HasCzynszCol) = Num(0, 0)

\* the statements that assign df, in the order the notebook runs them
Stages ==
    << "load", "size", "czynsz", "has_czynsz", "location", "price",
       "price_per_sqm", "amenities", "outliers_price", "outliers_size",
       "log_price" >>

\* the rows of frame whose index label is not in kept
RemovedRows(frame, kept) ==
    {r \in Range(frame) : r.idx \notin IdxSet(kept)}

\* C11: the set of rows only shrinks and no row comes back; a row is removed
\* only by cell 7 (its price is missing after cleaning) or by one of the two
\* calls of remove_outliers (its price, or its size, is not strictly inside
\* the fence of that call); every other statement keeps exactly the rows it
\* was given.
C11_RowLifecycle ==
    /\ \A k \in 1..(Len(Stages) - 1) :
          Ran(Stages[k + 1]) =>
              LET before == snap[Stages[k]]
                  after == snap[Stages[k + 1]]
              IN  /\ IdxSet(after) \subseteq IdxSet(before)
                  /\ Cardinality(IdxSet(after)) = Len(after)
                  /\ Stages[k + 1] \notin {"price", "outliers_price", "outliers_size"}
                        => IdxSet(after) = IdxSet(before)
                  /\ Stages[k + 1] = "price" =>
                        \A r \in RemovedRows(before, after) :
                            ~PriceParses(Cell(r, PriceCol))
                  /\ Stages[k + 1] = "outliers_price" =>
                        \A r \in RemovedRows(before, after) :
                            ~StrictlyInside(r, before, PriceCol)
                  /\ Stages[k + 1] = "outliers_size" =>
                        \A r \in RemovedRows(before, after) :
                            ~StrictlyInside(r, before, SizeCol)
    /\ \A k \in 1..Len(Stages) :
          Ran(Stages[k]) => IdxSet(df) \subseteq IdxSet(snap[Stages[k]])

\* C11 witness: the last statement that assigns df has run; one row went at
\* cell 7, another at an outlier call, and a row is left
C11_Witness ==
    /\ Ran("log_price")
    /\ RemovedRows(snap["location"], snap["price"]) # {}
    /\ RemovedRows(snap["amenities"], snap["outliers_size"]) # {}
    /\ df # <<>>

\* C18: a call of remove_outliers on a column whose quartiles are equal
\* (IQR = 0) returns no row at all, although every value in [Q1, Q3] is no
\* outlier.
C18_DegenerateFence ==
    \A call \in OutlierCalls :
        Ran(call[2]) =>
            LET before == snap[call[1]]
                xs == ScaledValues(before, call[3])
            IN  (xs # <<>> /\ Quantile4(xs, 1) = Quantile4(xs, 3))
                    => snap[call[2]] = <<>>

\* C18 witness: a call on two or more rows whose values all equal Q1 = Q3
\* returned nothing
C18_Witness ==
    \E call \in OutlierCalls :
        /\ Ran(call[2])
        /\ Len(snap[call[1]]) >= 2
        /\ LET xs == ScaledValues(snap[call[1]], call[3])
           IN  /\ Len(xs) = Len(snap[call[1]])
               /\ \A i \in 1..Len(xs) : 4 * xs[i] = Quantile4(xs, 1)
               /\ Quantile4(xs, 1) = Quantile4(xs, 3)
        /\ snap[call[2]] = <<>>

\* the run of word characters that ends right before position p of s
WordBefore(s, p) == TrailingWord(SubSeq(s, 1, p - 1))

\* the position of the k-th comma from the end (k = 1 the last)
CommaFromEnd(s, k) ==
    CHOOSE p \in CommaPositions(s) :
        Cardinality({q \in CommaPositions(s) : q > p}) = k - 1

\* C12 (as the spec states it): in a location string with two commas or
\* more, city is the word right before the second-to-last comma, neighborhood
\* the word right before the last comma and region the word the string ends
\* in; the location column is gone after cell 6.
C12_PositionalRule ==
    Ran("location") =>
        /\ LocationCol \notin Range(columns)
        /\ \A i \in 1..Len(snap["load"]) :
              LET loc == Cell(snap["load"][i], LocationCol)
                  out == snap["location"][i]
                  city == WordBefore(loc.s, CommaFromEnd(loc.s, 2))
                  neighborhood == WordBefore(loc.s, CommaFromEnd(loc.s, 1))
                  region == TrailingWord(loc.s)
              IN  (/\ IsStr(loc)
                   /\ Cardinality(CommaPositions(loc.s)) >= 2
                   /\ city # <<>> /\ neighborhood # <<>> /\ region # <<>>) =>
                      /\ LocationCol \notin DOMAIN out.cells
                      /\ Cell(out, CityCol) = Str(city)
                      /\ Cell(out, NeighborhoodCol) = Str(neighborhood)
                      /\ Cell(out, RegionCol) = Str(region)

\* the part of C12 that the patterns do give: when the last three tokens are
\* single words
C12_SingleWordTokens ==
    Ran("location") =>
        \A i \in 1..Len(snap["load"]) :
            LET loc == Cell(snap["load"][i], LocationCol)
                out == snap["location"][i]
            IN  (IsStr(loc) /\ EndsInThreeWords(loc.s)) =>
                    /\ Cell(out, CityCol) =
                          Str(WordBefore(loc.s, CommaFromEnd(loc.s, 2)))
                    /\ Cell(out, NeighborhoodCol) =
                          Str(WordBefore(loc.s, CommaFromEnd(loc.s, 1)))
                    /\ Cell(out, RegionCol) = Str(TrailingWord(loc.s))

(***************************************************************************)
(* Cell 13: the column lists of the ColumnTransformer.                    *)
(***************************************************************************)
\* no element of a sequence occurs twice
DuplicateFree(s) == \A i, j \in 1..Len(s) : i # j => s[i] # s[j]

\* C19: once cell 13 has run, no column name occurs twice in
\* numerical_features, no column is in both numerical_features and
\* categorical_features, and the numeric branch is given 11 columns, one per
\* distinct numeric column
C19_FeatureListsDistinct ==
    Ran("define_features") =>
        /\ DuplicateFree(numerical_features)
        /\ Range(numerical_features) \cap Range(categorical_features) = {}
        /\ Len(numerical_features) = 11

\* what does hold of the lists: they share no column, and the numeric list
\* names 11 distinct columns
C19_DisjointLists ==
    Ran("define_features") =>
        /\ Range(numerical_features) \cap Range(categorical_features) = {}
        /\ Cardinality(Range(numerical_features)) = 11

(***************************************************************************)
(* Cell 12: the feature matrix and the target.                            *)
(***************************************************************************)
\* the price of the listing an X row was made from
PriceOf(r) == Cell(RowOf(df, r.idx), PriceCol)

\* price = price_per_sqm * size on one X row
PriceIsProduct(r) ==
    /\ IsFinite(Cell(r, PricePerSqmCol))
    /\ IsFinite(Cell(r, SizeCol))
    /\ IsFinite(PriceOf(r))
    /\ RatMul(RatOf(Cell(r, PricePerSqmCol)), RatOf(Cell(r, SizeCol)))
           = RatOf(PriceOf(r))

\* C20: once cell 12 has run, every row of X has
\* price = price_per_sqm * size, and two rows of X with the same feature
\* values have the same price
C20_FeaturesDetermineTarget ==
    Ran("define_xy") =>
        /\ \A i \in 1..Len(X) : PriceIsProduct(X[i])
        /\ \A i, j \in 1..Len(X) :
              X[i].cells = X[j].cells => PriceOf(X[i]) = PriceOf(X[j])

SizeNonZero(r) == IsFinite(Cell(r, SizeCol)) /\ RatOf(Cell(r, SizeCol)).n # 0

\* what does hold: the rows of X whose size is not 0 have
\* price = price_per_sqm * size, and two of them with the same feature
\* values have the same price
C20_DeterminedForNonZeroSize ==
    Ran("define_xy") =>
        /\ \A i \in 1..Len(X) : SizeNonZero(X[i]) => PriceIsProduct(X[i])
        /\ \A i, j \in 1..Len(X) :
              (SizeNonZero(X[i]) /\ X[i].cells = X[j].cells)
                  => PriceOf(X[i]) = PriceOf(X[j])

\* two listings of size 0 and of different prices are in X with the same
\* feature values
C20_SameFeaturesTwoPrices ==
    /\ Ran("define_xy")
    /\ \E i, j \in 1..Len(X) :
          /\ X[i].cells = X[j].cells
          /\ PriceOf(X[i]) # PriceOf(X[j])

(***************************************************************************)
(* Cell 17: the two files.                                                 *)
(***************************************************************************)
\* cells 12-17
FitStages ==
    {"define_xy", "define_features", "define_model", "fit", "evaluate", "save"}

\* C13: a run that has aborted (no file, an empty file, a column that is
\* not there, or any other exception) has written neither file; a file is
\* there only when both are, after every earlier cell, the fit and the
\* evaluation included, has completed
C13_NoPartialArtifact ==
    /\ pc = "aborted" => DOMAIN files = {}
    /\ DOMAIN files # {} =>
          /\ pc = "done"
          /\ DOMAIN files = {ModelFile, PreprocessorFile}
          /\ \A s \in Range(Stages) \cup FitStages : Ran(s)
          /\ model.regressor.fitted
          /\ mae.t = "mean_absolute_error"

\* a file that lacks a categorical column: the run gets as far as the fit of
\* cell 15, with the model constructed, and aborts there with nothing written
C13_Witness ==
    /\ pc = "aborted"
    /\ error = ColumnMissing
    /\ Ran("define_model")
    /\ DOMAIN files = {}

\* the other structural aborts: no file, a file of zero bytes, a column
\* cells 3-12 name
C13_EarlyAborts ==
    pc = "aborted" /\ DOMAIN files = {}
        /\ error \in {"FileNotFoundError: data/otodom_data.csv",
                       "EmptyDataError: No columns to parse from file", KeyError}

(***************************************************************************)
(* Cells 13-16: the Feature Pipeline is fitted by model.fit and by nothing *)
(* else.  fit_log has one entry per fit of the preprocessor: the index    *)
(* labels of the rows it was fitted on.                                    *)
(***************************************************************************)
\* the preprocessor as cell 13 constructs it
AsConstructed == UnfittedPreprocessor(numerical_features, categorical_features)

\* C14: the preprocessor is fitted at most once; before that it holds no
\* statistic; from model.fit on its imputation means, standardization means
\* and variances and category vocabularies are those of the training rows
\* alone, also after the test rows have been transformed for the prediction;
\* and each prediction is made from the transform of its test row under
\* these statistics, so the same row transforms to the same output
C14_FitOnce ==
    /\ Len(fit_log) <= 1
    /\ (Ran("define_features") /\ fit_log = <<>>) => preprocessor = AsConstructed
    /\ Len(fit_log) = 1 =>
          /\ fit_log[1] = IdxSet(X_train)
          /\ IdxSet(X_train) \cap IdxSet(X_test) = {}
          /\ preprocessor = FitPreprocessor(AsConstructed, X_train)
          /\ model.preprocessor = preprocessor
    /\ Ran("evaluate") =>
          /\ Len(fit_log) = 1
          /\ \A i \in 1..Len(X_test) :
                y_pred[i] = NpExp([t |-> "predict",
                                   x |-> Transform(preprocessor, X_test[i])])

\* the prediction has been made on test rows whose own statistics are not
\* those of the training rows
C14_Witness ==
    /\ Ran("evaluate")
    /\ Len(X_test) > 0
    /\ FitPreprocessor(AsConstructed, X_test) # preprocessor
    /\ FitPreprocessor(AsConstructed, X) # preprocessor

\* C15: when the files are written, preprocessor.pkl holds a fitted
\* preprocessor with the statistics of the training rows, the same as the
\* preprocessor step of the model in housing_price_predictor_model.pkl,
\* whose regressor is fitted too
C15_PersistedFitted ==
    DOMAIN files # {} =>
        /\ files[PreprocessorFile].fitted
        /\ files[PreprocessorFile] = FitPreprocessor(AsConstructed, X_train)
        /\ files[PreprocessorFile] = files[ModelFile].preprocessor
        /\ files[ModelFile].regressor.fitted

\* both files are written, and the preprocessor in the file transforms a
\* row to the output the model's own step gives
C15_Witness ==
    /\ pc = "done"
    /\ DOMAIN files = {ModelFile, PreprocessorFile}
    /\ files[PreprocessorFile].fitted
    /\ \A i \in 1..Len(X_test) :
          Transform(files[PreprocessorFile], X_test[i])
              = Transform(files[ModelFile].preprocessor, X_test[i])

(***************************************************************************)
(* The categorical branch at transform time.                               *)
(***************************************************************************)
\* the number of columns of one transformed row
RowWidth(out) ==
    Len(out.num)
        + SumCard([k \in 1..Len(out.cat) |-> DOMAIN out.cat[k]])

\* the category the encoder is given for a cell: the token for an absent one
TokenOf(c) == IF IsNaN(c) THEN Str(MissingToken) ELSE c

\* C16: once the model is fitted, every row of X without an infinite
\* number transforms to as many columns as the fit fixed; in each categorical column the indicators are
\* those of the fitted vocabulary, an absent value counts as the category
\* "missing", a category of the vocabulary sets its own indicator and no
\* other, and a category outside it sets none; the prediction on the test
\* rows raises for no category (only for an infinite number)
C16_UnknownCategoryFallback ==
    /\ Ran("fit") =>
          \A i \in {j \in 1..Len(X) : NumericFinite(preprocessor, <<X[j]>>)} :
              LET out == Transform(preprocessor, X[i])
              IN  /\ RowWidth(out) = OutputWidth(preprocessor)
                  /\ \A k \in 1..Len(categorical_features) :
                        LET v == TokenOf(Cell(X[i], categorical_features[k]))
                        IN  /\ DOMAIN out.cat[k] = preprocessor.cat[k]
                            /\ \A c \in preprocessor.cat[k] :
                                  out.cat[k][c] = IF c = v THEN 1 ELSE 0
                            /\ v \notin preprocessor.cat[k] =>
                                  \A c \in preprocessor.cat[k] : out.cat[k][c] = 0
    /\ (Ran("fit") /\ pc = "aborted") => ~NumericFinite(preprocessor, X_test)

\* the prediction has been made on a test row with a category that is in
\* no training row, by a preprocessor whose vocabulary of some column has
\* "missing" in it
C16_Witness ==
    /\ Ran("evaluate")
    /\ \E i \in 1..Len(X_test) : \E k \in 1..Len(categorical_features) :
          /\ ~IsNaN(Cell(X_test[i], categorical_features[k]))
          /\ Cell(X_test[i], categorical_features[k]) \notin preprocessor.cat[k]
    /\ \E k \in 1..Len(categorical_features) :
          Str(MissingToken) \in preprocessor.cat[k]

\* the prediction has been made on a test row with an absent category, by a
\* preprocessor that met no absent value in that column at the fit
C16_MissingUnseen ==
    /\ Ran("evaluate")
    /\ \E i \in 1..Len(X_test) : \E k \in 1..Len(categorical_features) :
          /\ IsNaN(Cell(X_test[i], categorical_features[k]))
          /\ Str(MissingToken) \notin preprocessor.cat[k]

(***************************************************************************)
(* Cells 11 and 16: the logarithm of the price and its inverse.  The       *)
(* numeric texts of the model carry no sign, so a price is 0 or more.      *)
(***************************************************************************)
\* two numbers agree within the tolerance of the fixed-point exponential:
\* |a - b| <= |b| / 100
Close(a, b) ==
    LET d == RatSub(RatOf(a), RatOf(b))
        r == RatOf(b)
    IN  Abs(d.n) * r.d * 100 <= Abs(r.n) * d.d

\* C17: on every row that has its log_price, the exponential of log_price
\* is the price within the tolerance; and the evaluation takes the
\* exponential of every prediction and of every held-out log_price, so that
\* the error compares prices: each true value is the price of its test row
\* within the tolerance
C17_RoundTrip ==
    /\ Ran("log_price") =>
          \A i \in 1..Len(df) :
              /\ IsNum(NpExp(Cell(df[i], LogPriceCol)))
              /\ Close(NpExp(Cell(df[i], LogPriceCol)), Cell(df[i], PriceCol))
    /\ Ran("evaluate") =>
          /\ mae.y_pred = y_pred
          /\ DOMAIN mae.y_true = 1..Len(X_test)
          /\ \A i \in 1..Len(X_test) :
                /\ y_pred[i] = [t |-> "exp", of |-> Predict(model, X_test[i])]
                /\ mae.y_true[i] = NpExp(y[X_test[i].idx])
                /\ IsNum(mae.y_true[i])
                /\ Close(mae.y_true[i], PriceOf(X_test[i]))

\* the evaluation has run on a test row of a positive price, whose
\* logarithm is the held-out target
C17_Witness ==
    /\ Ran("evaluate")
    /\ \E i \in 1..Len(X_test) :
          /\ PriceOf(X_test[i]).m > 0
          /\ y[X_test[i].idx] = [t |-> "log", of |-> PriceOf(X_test[i])]
          /\ Close(mae.y_true[i], PriceOf(X_test[i]))

\* a price whose round trip is not exact in the fixed-point arithmetic, and
\* a price of 0, whose logarithm is -inf
C17_InexactSeen ==
    /\ Ran("log_price")
    /\ \E i \in 1..Len(df) :
          RatOf(NpExp(Cell(df[i], LogPriceCol))) # RatOf(Cell(df[i], PriceCol))
    /\ \E i \in 1..Len(df) : Cell(df[i], LogPriceCol).t = "neginf"

====
